---- MODULE Spec2Model ----
(***************************************************************************)
(* pbsestimator.py: chunk-reference accounting over the index files of a   *)
(* Proxmox Backup Server datastore.  The model follows the script's        *)
(* control flow: __main__ -> list_namespaces -> check_existing_ids ->      *)
(* get_absolute_paths -> count_blocks, one action per step of each loop.   *)
(***************************************************************************)
EXTENDS Integers, Sequences, FiniteSets, TLC

(***************************************************************************)
(* Bounds of the model.                                                    *)
(***************************************************************************)
\* index files found by one os.walk of a group directory
MaxFiles == 2

(***************************************************************************)
(* Program constants.                                                      *)
(***************************************************************************)
\* f.seek(4096)
HeaderSize == 4096
\* data[i:i+64], range(0, len(data), 64)
RecordHex == 64
\* len(new_chunks) * 4194304
ChunkSize == 4194304

(***************************************************************************)
(* Generic helpers.                                                        *)
(***************************************************************************)
Min(a, b) == IF a < b THEN a ELSE b

RECURSIVE SumSeq(_)
SumSeq(s) == IF s = <<>> THEN 0 ELSE s[1] + SumSeq(Tail(s))

RECURSIVE Concat(_)
Concat(ss) == IF ss = <<>> THEN <<>> ELSE ss[1] \o Concat(Tail(ss))

\* all sequences over S of length at most n
SeqsUpTo(S, n) == UNION {[1..k -> S] : k \in 0..n}

Distinct(s) == \A i, j \in 1..Len(s) : i # j => s[i] # s[j]

(***************************************************************************)
(* Index files on disk.  A file is a sequence of bytes; the generated      *)
(* files are hdr filler bytes, then complete 32-byte digests, then the     *)
(* first `tail` bytes of one more digest.                                  *)
(***************************************************************************)
\* one record of the body in bytes: .hex() gives two characters per byte
DigestBytes == RecordHex \div 2

\* the 32 bytes of digest c; all 16-byte halves of all digests differ
Digest(c) == [i \in 1..DigestBytes |-> (c * DigestBytes + i) % 256]

FileBytes(d) ==
    [i \in 1..d.hdr |-> 0]
        \o Concat([k \in 1..Len(d.recs) |-> Digest(d.recs[k])])
        \o SubSeq(Digest(7), 1, d.tail)


\* f.seek(4096); f.read(): the bytes from offset 4096 on, none if the file
\* is not longer than that
ReadFrom(bytes, offset) ==
    IF Len(bytes) <= offset THEN <<>> ELSE SubSeq(bytes, offset + 1, Len(bytes))

HexDigits == "0123456789abcdef"

HexDigit(n) == SubSeq(HexDigits, n + 1, n + 1)

\* bytes.hex(): two lower-case hexadecimal characters per byte
RECURSIVE Hex(_)
Hex(bytes) ==
    IF bytes = <<>> THEN ""
    ELSE IF Len(bytes) = 1
    THEN HexDigit(bytes[1] \div 16) \o HexDigit(bytes[1] % 16)
    ELSE LET half == Len(bytes) \div 2
         IN Hex(SubSeq(bytes, 1, half)) \o Hex(SubSeq(bytes, half + 1, Len(bytes)))

\* data[i:i+64]: a Python slice stops at the end of the string
Slice(data, i) == SubSeq(data, i + 1, Min(i + RecordHex, Len(data)))

\* range(0, len(data), 64)
SliceStartsHalved(data) == {i \in 0..(Len(data) - 1) : i % (2 * 16) = 0}
SliceStarts(data) == {i \in 0..(Len(data) - 1) : i % RecordHex = 0}

\* {data[i:i+64] for i in range(0, len(data), 64)}
Slices(data) == {Slice(data, i) : i \in SliceStarts(data)}

\* ... if data[i:i+64] not in chunk_set}
NewChunksUnfiltered(data, seen) == Slices(data)
NewChunks(data, seen) == {c \in Slices(data) : c \notin seen}

\* chunk_set.update(new_chunks)
UpdateSeenDropped(seen, new) == seen
UpdateSeen(seen, new) == seen \cup new

\* snapshot_size = len(new_chunks) * 4194304
SnapshotSize(new) == Cardinality(new) * ChunkSize

\* chunk_set = set(), at the top of the loop over the groups
GroupChunkSetCarried(carried) == carried
GroupChunkSet(carried) == {}

(***************************************************************************)
(* The datastore on disk: what the directory listings and the index files  *)
(* can hold.                                                               *)
(***************************************************************************)
Categories == <<"vm", "ct">>

RootNamespace == "root"

NamespaceNames == <<"teamA", "teamB">>

SnapshotDirs ==
    <<"2024-01-01T00:00:00Z", "2024-01-02T00:00:00Z",
      "2024-01-03T00:00:00Z", "2024-01-04T00:00:00Z">>

ImgFidx == "drive-scsi0.img.fidx"
PxarDidx == "root.pxar.didx"
PxarFidx == "root.pxar.fidx"

FileNames == {ImgFidx, PxarDidx, PxarFidx, "index.json.blob", "img.fidx"}

\* an index file: hdr filler bytes, the digests recs, tail bytes of a cut record
IndexFile(h, r, t) == [hdr |-> h, recs |-> r, tail |-> t]

\* files that differ in which complete digests they reference
AccountingFiles ==
    {IndexFile(HeaderSize, r, 0) : r \in {<<>>, <<1>>, <<2>>, <<1, 2>>}}
        \cup {IndexFile(100, <<>>, 0)}

\* files that differ in their length: short of the header, cut records, and
\* the two snapshots of three and of five digests
ReaderFiles ==
    {IndexFile(HeaderSize, r, t) : r \in {<<>>, <<1>>, <<1, 2>>}, t \in {0, 7, 16}}
        \cup {IndexFile(0, <<>>, 0), IndexFile(0, <<1>>, 0), IndexFile(100, <<>>, 0)}
        \cup {IndexFile(HeaderSize, <<1, 2, 3>>, 0),
              IndexFile(HeaderSize, <<1, 2, 3, 4, 5>>, 0)}

SelectionFiles == {IndexFile(HeaderSize, <<1>>, 0)}

AllFiles == AccountingFiles \cup ReaderFiles \cup SelectionFiles

\* what count_blocks gets from one file: f.seek(4096); data = f.read().hex()
IndexData(d) == Hex(ReadFrom(FileBytes(d), HeaderSize))

\* the same, tabulated once for the files above
DataOf == [d \in AllFiles |-> IndexData(d)]

\* an ID filter as given to -i: comma-separated items, each a single ID
\* <<a, a>> or a range <<a, b>>; NoFilter when the option is absent
NoFilter == <<>>
IdFilters == {<< <<101, 101>> >>, << <<100, 100>>, <<102, 104>> >>}

\* the classes of datastore the specifications start from
AccountingDisk ==
    [ids |-> {100}, names |-> {ImgFidx, PxarDidx}, contents |-> AccountingFiles]
ReaderDisk ==
    [ids |-> {100}, names |-> {ImgFidx}, contents |-> ReaderFiles]
SelectionDisk ==
    [ids |-> {100}, names |-> FileNames, contents |-> SelectionFiles]
FilterDisk ==
    [ids |-> {100, 101}, names |-> {ImgFidx}, contents |-> SelectionFiles]

(***************************************************************************)
(* Paths.                                                                  *)
(***************************************************************************)
\* os.path.join(datastore_path, category, str(vmid)) and below it
Path(ns, category, vmid, dir, f) == <<ns, category, vmid, dir, f>>
Dirname(p) == SubSeq(p, 1, Len(p) - 1)
Basename(p) == p[Len(p)]

\* str.endswith
EndsWith(s, suffix) ==
    /\ Len(s) >= Len(suffix)
    /\ SubSeq(s, Len(s) - Len(suffix) + 1, Len(s)) = suffix

\* the condition of the list comprehension of get_absolute_paths; `and`
\* binds tighter than `or`
Selected(f, category) ==
    \/ (EndsWith(f, ".img.fidx") /\ category = "vm")
    \/ (\/ EndsWith(f, "root.pxar.fidx")
        \/ (EndsWith(f, "root.pxar.didx") /\ category = "ct"))

\* the listings os.walk can give for a group directory: up to MaxFiles
\* files, the files of one snapshot directory together
Walks(names) ==
    {w \in SeqsUpTo([dir : 1..MaxFiles, f : names], MaxFiles) :
        /\ Distinct(w)
        /\ Len(w) > 0 => w[1].dir = 1
        /\ \A i \in 1..(Len(w) - 1) : w[i + 1].dir \in {w[i].dir, w[i].dir + 1}}

\* the listings os.listdir can give for a category directory: the group
\* directories, in any order
IdListings(ids) == {l \in SeqsUpTo(ids, Cardinality(ids)) : Distinct(l)}

\* the listings os.listdir can give for <datastore>/ns
NamespaceListings ==
    {SubSeq(NamespaceNames, 1, n) : n \in 0..Len(NamespaceNames)}

\* results.sort(key=lambda x: x["total_bytes"], reverse=True): stable
RECURSIVE InsertDesc(_, _)
InsertDesc(r, s) ==
    IF s = <<>> THEN <<r>>
    ELSE IF s[1].total_bytes >= r.total_bytes THEN <<s[1]>> \o InsertDesc(r, Tail(s))
    ELSE <<r>> \o s

RECURSIVE SortDesc(_)
SortDesc(s) ==
    IF s = <<>> THEN <<>>
    ELSE InsertDesc(s[Len(s)], SortDesc(SubSeq(s, 1, Len(s) - 1)))

(***************************************************************************)
(* State.                                                                  *)
(***************************************************************************)
VARIABLES
    disk,                  \* the class of datastore the run reads
    args,                  \* args = argparser()
    pc,                    \* the statement the script is at
    exc,                   \* the exception that ended the run, or "none"
    namespaces,            \* namespaces = list_namespaces(datastore_path)
    ns_idx,                \* position of `for namespace in namespaces`
    existing_ids,          \* existing_ids = check_existing_ids(...)
    id_idx,                \* position of `for category, vmid in vm_ct_list`
    walk,                  \* what os.walk(scan_path) listed last
    files,                 \* files = [...] of get_absolute_paths
    vm_ct_paths,           \* file_list / vm_ct_paths / vm_list
    vm_idx,                \* position of `for vm in vm_list`
    file_idx,              \* position of `for filepath in vm["files"]`
    chunk_set,             \* chunk_set
    new_chunks,            \* new_chunks
    vm_snapshots,          \* vm_snapshots
    total_bytes,           \* total_bytes
    total_namespace_bytes, \* total_namespace_bytes of count_blocks
    snapshots,             \* snapshots of count_blocks
    open_files,            \* the index files that are open
    index_read,            \* the index files read so far for the group at vm_idx
    counted_elsewhere,     \* the identifiers counted for the groups done before
    results,               \* results of __main__
    ns_total,              \* total_namespace_bytes of __main__
    output_content         \* the per-namespace lines of all-namespaces mode

vars ==
    <<disk, args, pc, exc, namespaces, ns_idx, existing_ids, id_idx, walk, files,
      vm_ct_paths, vm_idx, file_idx, chunk_set, new_chunks, vm_snapshots,
      total_bytes, total_namespace_bytes, snapshots, open_files, index_read,
      counted_elsewhere, results, ns_total, output_content>>

inputVars == <<disk, args, counted_elsewhere>>
mainVars == <<inputVars, namespaces, results, ns_total, output_content>>
pathVars == <<existing_ids, id_idx, walk, files, vm_ct_paths>>
groupVars == <<chunk_set, new_chunks, vm_snapshots, total_bytes, index_read>>
callVars == <<vm_idx, total_namespace_bytes, snapshots>>

\* the namespace count_blocks is running for
Namespace == IF args.all_namespaces THEN namespaces[ns_idx] ELSE RootNamespace

\* vm, and filepath, of the loops of count_blocks
Vm == vm_ct_paths[vm_idx]
Filepath == Vm.files[file_idx]

InitWith(d, a) ==
    /\ disk = d
    /\ args \in a
    /\ pc = "main"
    /\ exc = "none"
    /\ namespaces = <<>>
    /\ ns_idx = 1
    /\ existing_ids = <<>>
    /\ id_idx = 1
    /\ walk = <<>>
    /\ files = <<>>
    /\ vm_ct_paths = <<>>
    /\ vm_idx = 1
    /\ file_idx = 1
    /\ chunk_set = {}
    /\ new_chunks = {}
    /\ vm_snapshots = <<>>
    /\ total_bytes = 0
    /\ total_namespace_bytes = 0
    /\ snapshots = <<>>
    /\ open_files = {}
    /\ index_read = <<>>
    /\ counted_elsewhere = {}
    /\ results = <<>>
    /\ ns_total = 0
    /\ output_content = <<>>

\* the options the model reads; blame is read in single-namespace mode only
Args(filters) ==
    {a \in [all_namespaces : BOOLEAN, blame : BOOLEAN, vmids : filters] :
        a.all_namespaces => ~a.blame}

Init == InitWith(AccountingDisk, Args({NoFilter}))
InitReader == InitWith(ReaderDisk, Args({NoFilter}))
InitSelection == InitWith(SelectionDisk, Args({NoFilter}))
InitFilter == InitWith(FilterDisk, Args(IdFilters))

(***************************************************************************)
(* __main__                                                                *)
(***************************************************************************)
\* if args["all_namespaces"]: namespaces = list_namespaces(datastore_path)
ListNamespaces ==
    /\ pc = "main"
    /\ args.all_namespaces
    /\ \E l \in NamespaceListings : namespaces' = l
    /\ ns_idx' = 1
    /\ pc' = "ns_loop"
    /\ UNCHANGED <<inputVars, exc, results, ns_total, output_content, open_files>>
    /\ UNCHANGED <<pathVars, groupVars, callVars, file_idx>>

\* else: the single namespace
SingleNamespace ==
    /\ pc = "main"
    /\ ~args.all_namespaces
    /\ pc' = "check_ids"
    /\ UNCHANGED <<mainVars, exc, ns_idx, open_files>>
    /\ UNCHANGED <<pathVars, groupVars, callVars, file_idx>>

\* for namespace in namespaces: ...; after the loop the run ends
NextNamespace ==
    /\ pc = "ns_loop"
    /\ pc' = IF ns_idx <= Len(namespaces) THEN "check_ids" ELSE "done"
    /\ UNCHANGED <<mainVars, exc, ns_idx, open_files>>
    /\ UNCHANGED <<pathVars, groupVars, callVars, file_idx>>

(***************************************************************************)
(* check_existing_ids and get_absolute_paths                               *)
(***************************************************************************)
\* existing_ids = check_existing_ids(namespace_path): the directories under
\* vm, then those under ct.  args["vmids"] is not read.
CheckExistingIds ==
    /\ pc = "check_ids"
    /\ \E vms, cts \in IdListings(disk.ids) :
        existing_ids' =
            [i \in 1..Len(vms) |-> <<Categories[1], vms[i]>>]
                \o [i \in 1..Len(cts) |-> <<Categories[2], cts[i]>>]
    /\ id_idx' = 1
    /\ vm_ct_paths' = <<>>
    /\ pc' = "get_paths"
    /\ UNCHANGED <<mainVars, exc, ns_idx, walk, files, open_files>>
    /\ UNCHANGED <<groupVars, callVars, file_idx>>

\* one turn of `for category, vmid in vm_ct_list`: walk the group directory,
\* keep the files the condition selects, append the group if any is kept
ScanGroup ==
    /\ pc = "get_paths"
    /\ id_idx <= Len(existing_ids)
    /\ LET category == existing_ids[id_idx][1]
           vmid == existing_ids[id_idx][2]
       IN \E w \in Walks(disk.names) :
            LET kept == SelectSeq(w, LAMBDA e : Selected(e.f, category))
                paths == [i \in 1..Len(kept) |->
                            Path(Namespace, category, vmid,
                                 SnapshotDirs[kept[i].dir], kept[i].f)]
            IN /\ walk' = w
               /\ files' = paths
               /\ vm_ct_paths' =
                    IF paths # <<>>
                    THEN Append(vm_ct_paths,
                                [category |-> category, vmid |-> vmid, files |-> paths])
                    ELSE vm_ct_paths
    /\ id_idx' = id_idx + 1
    /\ UNCHANGED <<mainVars, exc, ns_idx, pc, existing_ids, open_files>>
    /\ UNCHANGED <<groupVars, callVars, file_idx>>

\* return file_list; results, total_namespace_bytes = count_blocks(vm_ct_paths)
\* begins: total_namespace_bytes = 0; snapshots = [].  The locals of
\* get_absolute_paths end here, and existing_ids is not read again.
EnterCountBlocks ==
    /\ pc = "get_paths"
    /\ id_idx > Len(existing_ids)
    /\ walk' = <<>>
    /\ files' = <<>>
    /\ total_namespace_bytes' = 0
    /\ snapshots' = <<>>
    /\ vm_idx' = 1
    /\ existing_ids' = <<>>
    /\ id_idx' = 1
    /\ pc' = "cb_vm"
    /\ UNCHANGED <<mainVars, exc, ns_idx, vm_ct_paths>>
    /\ UNCHANGED <<groupVars, file_idx, open_files>>

(***************************************************************************)
(* count_blocks                                                            *)
(***************************************************************************)
\* one turn of `for vm in vm_list` begins
StartGroup ==
    /\ pc = "cb_vm"
    /\ vm_idx <= Len(vm_ct_paths)
    /\ chunk_set' = GroupChunkSet(chunk_set)
    /\ vm_snapshots' = <<>>
    /\ total_bytes' = 0
    /\ file_idx' = 1
    /\ index_read' = <<>>
    /\ pc' = "cb_file"
    /\ UNCHANGED <<mainVars, exc, ns_idx, pathVars, callVars, new_chunks, open_files>>

\* with open(filepath, "rb") as f:
OpenFile ==
    /\ pc = "cb_file"
    /\ file_idx <= Len(Vm.files)
    /\ open_files' = open_files \cup {Filepath}
    /\ pc' = "cb_read"
    /\ UNCHANGED <<mainVars, exc, ns_idx, pathVars, callVars, groupVars, file_idx>>

\* open() raises OSError: nothing catches it, the run ends with a traceback
OpenFailsSkipped ==
    /\ pc = "cb_file"
    /\ file_idx <= Len(Vm.files)
    /\ file_idx' = file_idx + 1
    /\ UNCHANGED <<mainVars, exc, ns_idx, pathVars, callVars, groupVars, pc, open_files>>
OpenFails ==
    /\ pc = "cb_file"
    /\ file_idx <= Len(Vm.files)
    /\ exc' = "OSError in open"
    /\ pc' = "aborted"
    /\ UNCHANGED <<mainVars, ns_idx, pathVars, callVars, groupVars, file_idx, open_files>>

\* the record appended to vm_snapshots
SnapshotEntry(filepath, new) ==
    [snapshot |-> Basename(Dirname(filepath)),
     new_chunks |-> Cardinality(new),
     new_chunks_bytes |-> SnapshotSize(new)]

\* vm_snapshots.append({...}): every file gets its entry
RecordSnapshotIfNew(entries, e) ==
    IF e.new_chunks = 0 THEN entries ELSE Append(entries, e)
RecordSnapshot(entries, e) == Append(entries, e)

\* the body of the with statement, for a file holding d
ReadFile ==
    /\ pc = "cb_read"
    /\ \E d \in disk.contents :
        LET data == DataOf[d]
            new == NewChunks(data, chunk_set)
        IN /\ new_chunks' = new
           /\ chunk_set' = UpdateSeen(chunk_set, new)
           /\ vm_snapshots' = RecordSnapshot(vm_snapshots, SnapshotEntry(Filepath, new))
           /\ total_bytes' = total_bytes + SnapshotSize(new)
           /\ index_read' = Append(index_read, d)
    /\ pc' = "cb_close"
    /\ UNCHANGED <<mainVars, exc, ns_idx, pathVars, callVars, file_idx, open_files>>

\* f.read() raises OSError: the with statement closes f, and the exception
\* leaves count_blocks
ReadFails ==
    /\ pc = "cb_read"
    /\ open_files' = open_files \ {Filepath}
    /\ exc' = "OSError in read"
    /\ pc' = "aborted"
    /\ UNCHANGED <<mainVars, ns_idx, pathVars, callVars, groupVars, file_idx>>

\* the with statement ends: f is closed; next filepath
CloseFileLeaked ==
    /\ pc = "cb_close"
    /\ file_idx' = file_idx + 1
    /\ pc' = "cb_file"
    /\ UNCHANGED <<mainVars, exc, ns_idx, pathVars, callVars, groupVars, open_files>>
CloseFile ==
    /\ pc = "cb_close"
    /\ open_files' = open_files \ {Filepath}
    /\ file_idx' = file_idx + 1
    /\ pc' = "cb_file"
    /\ UNCHANGED <<mainVars, exc, ns_idx, pathVars, callVars, groupVars>>

\* after the last filepath: total_namespace_bytes += total_bytes;
\* snapshots.append({...}); next vm
EndGroup ==
    /\ pc = "cb_file"
    /\ file_idx > Len(Vm.files)
    /\ total_namespace_bytes' = total_namespace_bytes + total_bytes
    /\ snapshots' =
        Append(snapshots,
               [category |-> Vm.category, vmid |-> Vm.vmid,
                snapshots |-> vm_snapshots, total_bytes |-> total_bytes])
    /\ counted_elsewhere' = counted_elsewhere \cup chunk_set
    /\ vm_idx' = vm_idx + 1
    /\ pc' = "cb_vm"
    /\ UNCHANGED <<disk, args, namespaces, results, ns_total, output_content>>
    /\ UNCHANGED <<exc, ns_idx, pathVars, groupVars, file_idx, open_files>>

\* return snapshots, total_namespace_bytes.  The locals of count_blocks end
\* here, and vm_ct_paths is not read again.
Return ==
    /\ pc = "cb_vm"
    /\ vm_idx > Len(vm_ct_paths)
    /\ results' = snapshots
    /\ ns_total' = total_namespace_bytes
    /\ snapshots' = <<>>
    /\ total_namespace_bytes' = 0
    /\ vm_idx' = 1
    /\ file_idx' = 1
    /\ chunk_set' = {}
    /\ new_chunks' = {}
    /\ vm_snapshots' = <<>>
    /\ total_bytes' = 0
    /\ index_read' = <<>>
    /\ vm_ct_paths' = <<>>
    /\ pc' = "returned"
    /\ UNCHANGED <<inputVars, namespaces, output_content, exc, ns_idx, open_files>>
    /\ UNCHANGED <<existing_ids, id_idx, walk, files>>

\* all-namespaces mode: the namespace's line is added to the output; next
\* namespace.  results and total_namespace_bytes are not read again before
\* the next call assigns them.
NamespaceOutput ==
    /\ pc = "returned"
    /\ args.all_namespaces
    /\ output_content' = Append(output_content, <<Namespace, ns_total>>)
    /\ results' = <<>>
    /\ ns_total' = 0
    /\ ns_idx' = ns_idx + 1
    /\ pc' = "ns_loop"
    /\ UNCHANGED <<inputVars, namespaces, exc, open_files>>
    /\ UNCHANGED <<pathVars, groupVars, callVars, file_idx>>

\* single-namespace mode: blame mode sorts the results, then they are printed
Report ==
    /\ pc = "returned"
    /\ ~args.all_namespaces
    /\ results' = IF args.blame THEN SortDesc(results) ELSE results
    /\ pc' = "done"
    /\ UNCHANGED <<inputVars, namespaces, ns_total, output_content, exc, ns_idx>>
    /\ UNCHANGED <<pathVars, groupVars, callVars, file_idx, open_files>>

Next ==
    \/ ListNamespaces
    \/ SingleNamespace
    \/ NextNamespace
    \/ CheckExistingIds
    \/ ScanGroup
    \/ EnterCountBlocks
    \/ StartGroup
    \/ OpenFile
    \/ OpenFails
    \/ ReadFile
    \/ ReadFails
    \/ CloseFile
    \/ EndGroup
    \/ Return
    \/ NamespaceOutput
    \/ Report

Spec == Init /\ [][Next]_vars
SpecReader == InitReader /\ [][Next]_vars
SpecSelection == InitSelection /\ [][Next]_vars
SpecFilter == InitFilter /\ [][Next]_vars

(***************************************************************************)
(* What the properties below are stated in.                                *)
(***************************************************************************)
\* the statements of the loop over the files of one group
FilePcs == {"cb_file", "cb_read", "cb_close"}

\* the length of an index file, and the bytes after its first 4096
SizeOf == [d \in AllFiles |-> Len(FileBytes(d))]
BodyOf ==
    [d \in AllFiles |->
        LET b == FileBytes(d) IN [i \in 1..(Len(b) - HeaderSize) |-> b[HeaderSize + i]]]

\* the body cut into records of w bytes
RecordsOf(b, w) == [k \in 1..(Len(b) \div w) |-> SubSeq(b, (k - 1) * w + 1, k * w)]

\* files whose body is a whole number of pairwise distinct records of w bytes
WholeRecords(w) ==
    {d \in AllFiles : Len(BodyOf[d]) % w = 0 /\ Distinct(RecordsOf(BodyOf[d], w))}
Whole16 == WholeRecords(DigestBytes \div 2)
Whole32 == WholeRecords(DigestBytes)

\* the chunk identifiers of an index file, and of a list of index files
IdsOf == [d \in AllFiles |-> Slices(DataOf[d])]
UnionIds(fs) == UNION {IdsOf[fs[i]] : i \in 1..Len(fs)}

\* the identifiers of the files read before the k-th of this group
Earlier(k) == UnionIds(SubSeq(index_read, 1, k - 1))

\* how many identifiers of the k-th file no earlier file of the group holds
OwnNew(k) == Cardinality(IdsOf[index_read[k]] \ Earlier(k))

Counts(entries) == [i \in 1..Len(entries) |-> entries[i].new_chunks]
Bytes(entries) == [i \in 1..Len(entries) |-> entries[i].new_chunks_bytes]
Totals(groups) == [i \in 1..Len(groups) |-> groups[i].total_bytes]

\* the group that count_blocks finished last, while its files are still known
GroupDone == pc = "cb_vm" /\ vm_idx > 1
LastGroup == snapshots[vm_idx - 1]

\* how many files of the group the loop has been through
FilesDone == IF pc = "cb_close" THEN file_idx ELSE file_idx - 1

(***************************************************************************)
(* C1.  The total_bytes of a group is 4194304 times the number of distinct *)
(* chunk identifiers in the union of the group's index files, and it is    *)
(* the sum of new_chunks_bytes over the group's snapshot entries; this     *)
(* holds after every file and for the entry count_blocks reports.          *)
(***************************************************************************)
C1_GroupTotal ==
    /\ pc \in FilePcs =>
        /\ total_bytes = ChunkSize * Cardinality(UnionIds(index_read))
        /\ total_bytes = SumSeq(Bytes(vm_snapshots))
    /\ GroupDone =>
        /\ LastGroup.total_bytes = ChunkSize * Cardinality(UnionIds(index_read))
        /\ LastGroup.total_bytes = SumSeq(Bytes(LastGroup.snapshots))

\* a group of two files that share an identifier has been reported
C1_Witness ==
    /\ GroupDone
    /\ Len(index_read) = 2
    /\ IdsOf[index_read[1]] \cap IdsOf[index_read[2]] # {}
    /\ IdsOf[index_read[2]] \ IdsOf[index_read[1]] # {}
    /\ LastGroup.total_bytes = 2 * ChunkSize

\* the parts of C2: what holds after a file, and what each step keeps
C2_Disjoint ==
    pc = "cb_close" => new_chunks \cap Earlier(Len(index_read)) = {}

C2_Grows ==
    pc \in FilePcs =>
        /\ chunk_set \subseteq chunk_set'
        /\ SumSeq(Counts(vm_snapshots')) >= SumSeq(Counts(vm_snapshots))
        /\ (pc = "cb_read" /\ pc' = "cb_close") => new_chunks' \cap chunk_set = {}

(***************************************************************************)
(* C2.  The identifiers counted as new for the file just processed are     *)
(* disjoint from the identifiers of all files of the group processed       *)
(* before it; within a group the seen set only grows, no identifier of it  *)
(* is counted as new again, and the cumulative count does not decrease.    *)
(***************************************************************************)
C2_NeverNewTwice == []C2_Disjoint /\ [][C2_Grows]_vars

\* a second file repeating an identifier of the first has only its other
\* identifier counted
C2_Witness ==
    /\ pc = "cb_close"
    /\ Len(index_read) = 2
    /\ IdsOf[index_read[2]] \cap IdsOf[index_read[1]] # {}
    /\ new_chunks # {}
    /\ new_chunks # IdsOf[index_read[2]]

(***************************************************************************)
(* C3.  The counts and totals of a group depend on the group's own index   *)
(* files only: every entry counts the identifiers of its file that no      *)
(* earlier file of the same group holds, whatever was counted for other    *)
(* groups or in earlier namespaces, and a namespace total is the sum of    *)
(* its groups' totals.                                                     *)
(***************************************************************************)
C3_GroupScoped ==
    /\ pc \in FilePcs =>
        \A k \in 1..Len(vm_snapshots) : vm_snapshots[k].new_chunks = OwnNew(k)
    /\ pc = "cb_close" =>
        new_chunks = IdsOf[index_read[Len(index_read)]] \ Earlier(Len(index_read))
    /\ GroupDone =>
        \A k \in 1..Len(LastGroup.snapshots) : LastGroup.snapshots[k].new_chunks = OwnNew(k)
    /\ pc = "cb_vm" => total_namespace_bytes = SumSeq(Totals(snapshots))
    /\ pc = "returned" => ns_total = SumSeq(Totals(results))

\* in the second namespace, the second group counts an identifier as new
\* that was counted for a group before it
C3_Witness ==
    /\ args.all_namespaces
    /\ ns_idx = 2
    /\ vm_idx = 2
    /\ pc = "cb_close"
    /\ new_chunks \cap counted_elsewhere # {}

(***************************************************************************)
(* C4.  With an ID filter given, only groups whose numeric ID is in the    *)
(* filter set are in the results.                                          *)
(***************************************************************************)
FilterIds(filter) == UNION {filter[i][1]..filter[i][2] : i \in 1..Len(filter)}

C4_FilterApplied ==
    args.vmids # NoFilter =>
        \A i \in 1..Len(results) : results[i].vmid \in FilterIds(args.vmids)

(***************************************************************************)
(* C5.  As claimed: a first file of a group whose body is n pairwise       *)
(* distinct complete 16-byte records gets new_chunks = n.                  *)
(***************************************************************************)
C5_Records16 ==
    (pc = "cb_close" /\ Len(index_read) = 1 /\ index_read[1] \in Whole16) =>
        vm_snapshots[1].new_chunks = Len(BodyOf[index_read[1]]) \div (DigestBytes \div 2)

(***************************************************************************)
(* C5, amended.  The records are 32 bytes (64 hexadecimal characters): a   *)
(* first file of a group whose body is n pairwise distinct complete        *)
(* 32-byte records gets new_chunks = n; three identifiers and then those   *)
(* three and two more give 3 and 2, 12582912 and 8388608 bytes, and a      *)
(* group total of 20971520 bytes.                                          *)
(***************************************************************************)
ThreeChunks == IndexFile(HeaderSize, <<1, 2, 3>>, 0)
FiveChunks == IndexFile(HeaderSize, <<1, 2, 3, 4, 5>>, 0)

C5_Records32 ==
    /\ (pc = "cb_close" /\ Len(index_read) = 1 /\ index_read[1] \in Whole32) =>
        vm_snapshots[1].new_chunks = Len(BodyOf[index_read[1]]) \div DigestBytes
    /\ (pc = "cb_close" /\ index_read = <<ThreeChunks, FiveChunks>>) =>
        /\ Counts(vm_snapshots) = <<3, 2>>
        /\ Bytes(vm_snapshots) = <<12582912, 8388608>>
        /\ total_bytes = 20971520

\* the two snapshots of three and of five identifiers have been processed
C5_Witness ==
    /\ pc = "cb_close"
    /\ index_read = <<ThreeChunks, FiveChunks>>
    /\ total_bytes = 5 * ChunkSize

(***************************************************************************)
(* C6.  A trailing partial record is dropped: no identifier that is        *)
(* counted as new or held in the seen set is a cut record.                 *)
(***************************************************************************)
C6_PartialDropped ==
    \A c \in chunk_set \cup new_chunks : Len(c) % (RecordHex \div 2) = 0

(***************************************************************************)
(* C7.  The files kept for a vm group are exactly those ending in          *)
(* .img.fidx, the files kept for a ct group exactly those ending in        *)
(* root.pxar.fidx or root.pxar.didx.                                       *)
(***************************************************************************)
ByCategory(f, category) ==
    \/ (category = "vm" /\ EndsWith(f, ".img.fidx"))
    \/ (category = "ct" /\ (EndsWith(f, "root.pxar.fidx") \/ EndsWith(f, "root.pxar.didx")))

C7_ByCategory ==
    (pc = "get_paths" /\ id_idx > 1) =>
        LET category == existing_ids[id_idx - 1][1]
            kept == SelectSeq(walk, LAMBDA e : ByCategory(e.f, category))
        IN [i \in 1..Len(files) |-> Basename(files[i])]
            = [i \in 1..Len(kept) |-> kept[i].f]

(***************************************************************************)
(* C8.  A file that cannot be opened or read ends the run with the         *)
(* exception: the group gets no entry and count_blocks does not return;    *)
(* no file is skipped, so a group that is reported had every file read.    *)
(***************************************************************************)
C8_ErrorPropagates ==
    /\ exc # "none" => (pc = "aborted" /\ Len(snapshots) = vm_idx - 1)
    /\ pc = "aborted" => exc # "none"
    /\ pc \in FilePcs => Len(index_read) = FilesDone
    /\ GroupDone => Len(index_read) = Len(vm_ct_paths[vm_idx - 1].files)

\* the second file of the second group failed
C8_Witness ==
    /\ pc = "aborted"
    /\ exc # "none"
    /\ vm_idx = 2
    /\ Len(index_read) = 1
    /\ total_bytes > 0

\* the parts of C9: the entries after a file, and the step that adds one
C9_Entries ==
    /\ pc \in FilePcs =>
        /\ Len(vm_snapshots) = FilesDone
        /\ Len(vm_snapshots) = Len(index_read)
        /\ \A k \in 1..Len(vm_snapshots) :
            (SizeOf[index_read[k]] <= HeaderSize \/ IdsOf[index_read[k]] \subseteq Earlier(k))
                => (vm_snapshots[k].new_chunks = 0 /\ vm_snapshots[k].new_chunks_bytes = 0)
    /\ GroupDone => Len(LastGroup.snapshots) = Len(vm_ct_paths[vm_idx - 1].files)

C9_ZeroKeepsTotal ==
    (/\ Len(vm_snapshots') = Len(vm_snapshots) + 1
     /\ vm_snapshots'[Len(vm_snapshots')].new_chunks = 0)
        => total_bytes' = total_bytes

C10_OneHandle ==
    /\ Cardinality(open_files) <= 1
    /\ open_files = IF pc \in {"cb_read", "cb_close"} THEN {Filepath} ELSE {}

\* a read failed on the second file of a group
C10_Witness ==
    /\ pc = "aborted"
    /\ exc = "OSError in read"
    /\ file_idx = 2
    /\ open_files = {}

====
